---------------------------- MODULE Spec2Model ----------------------------
(***************************************************************************)
(* Model of rck/rcswitch (src/rcswitch.go): the codeword encoders for      *)
(* switch types A-D, the tri-state expander, the waveform compiler, the    *)
(* transmit loop, and the RCSwitch controller with its mutex.              *)
(*                                                                         *)
(* A Go string is modelled as a sequence of runes, each rune a TLA+ string *)
(* (an ASCII rune by its letter, another by its code point): "0F" is       *)
(* <<"0", "F">>.  len() counts bytes, range iterates runes, as in Go.      *)
(***************************************************************************)
EXTENDS Integers, Sequences, FiniteSets, TLC

VARIABLES
    \* ---- the RCSwitch object (src/rcswitch.go:42-48)
    pin,        \* s.pin
    protocol,   \* s.protocol (a copy of one entry of protocols)
    nrRepeat,   \* s.nrRepeat
    isOn,       \* s.isOn : map[string]bool, a function on the keys present
    lock,       \* the embedded sync.Mutex: the goroutine holding it, or NoProc
    \* ---- the calling goroutines
    pc,         \* where each goroutine is inside its current call
    call,       \* the call a goroutine is executing (name and arguments)
    frame,      \* the arguments and loop indices of transmit()
    trace,      \* history: the pin.Out calls made by the goroutine's current call
    pre,        \* history: the object's fields when the current call began
    last,       \* history: status of the last Switch call that returned nil, per (group, device)
    \* ---- the pure pipeline, run on its own (specification SpecEnc)
    encIn,      \* the arguments of getCodeWord
    encStage,   \* "input", "encoded", "expanded", "compiled"
    encOut,     \* getCodeWord's result
    encBin,     \* triStateToBinary's result
    encProt,    \* the protocol index handed to binaryToWaveForm
    encWs       \* binaryToWaveForm's result

objVars == <<pin, protocol, nrRepeat, isOn, lock>>
procVars == <<pc, call, frame, trace, pre, last>>
encVars == <<encIn, encStage, encOut, encBin, encProt, encWs>>
vars == <<pin, protocol, nrRepeat, isOn, lock, pc, call, frame, trace, pre, last,
          encIn, encStage, encOut, encBin, encProt, encWs>>

----------------------------------------------------------------------------
\* Bounds of the model

\* longest binary group/device string enumerated as an input
MaxLen == 6
\* largest repeat count handed to SetRepeat
MaxRepeat == 2

----------------------------------------------------------------------------
\* Strings

Digits == {"0", "1", "2", "3", "4", "5", "6", "7", "8", "9"}

\* a rune that UTF-8 encodes in two bytes (e-acute, named by its code point);
\* every other rune used here is ASCII
TwoByteRunes == {"U+E9"}

RECURSIVE len(_)
\* Go's len(string): the number of bytes
len(s) ==
    IF s = <<>> THEN 0
    ELSE (IF Head(s) \in TwoByteRunes THEN 2 ELSE 1) + len(Tail(s))

DigitVal(c) ==
    CASE c = "0" -> 0 [] c = "1" -> 1 [] c = "2" -> 2 [] c = "3" -> 3 [] c = "4" -> 4
      [] c = "5" -> 5 [] c = "6" -> 6 [] c = "7" -> 7 [] c = "8" -> 8 [] c = "9" -> 9

HexVal(c) ==
    CASE c \in Digits -> DigitVal(c)
      [] c \in {"a", "A"} -> 10 [] c \in {"b", "B"} -> 11 [] c \in {"c", "C"} -> 12
      [] c \in {"d", "D"} -> 13 [] c \in {"e", "E"} -> 14 [] c \in {"f", "F"} -> 15
      [] OTHER -> 16

RECURSIVE DecOf(_, _)
DecOf(s, acc) == IF s = <<>> THEN acc ELSE DecOf(Tail(s), acc * 10 + DigitVal(Head(s)))

RECURSIVE HexOf(_, _)
HexOf(s, acc) == IF s = <<>> THEN acc ELSE HexOf(Tail(s), acc * 16 + HexVal(Head(s)))

\* strconv.Atoi: an optional sign, then one or more decimal digits; on a
\* syntax error the value returned with the error is 0
Atoi(s) ==
    LET signed == s # <<>> /\ Head(s) \in {"+", "-"}
        body == IF signed THEN Tail(s) ELSE s
    IN  IF body = <<>> \/ \E k \in 1..Len(body) : body[k] \notin Digits
        THEN [ok |-> FALSE, val |-> 0]
        ELSE [ok |-> TRUE,
              val |-> IF signed /\ Head(s) = "-" THEN 0 - DecOf(body, 0) ELSE DecOf(body, 0)]

\* strconv.ParseUint(s, 16, 8): hexadecimal digits only, no sign, value below 2^8
ParseUint(s) ==
    IF s = <<>> \/ \E k \in 1..Len(s) : HexVal(s[k]) = 16
    THEN [ok |-> FALSE, val |-> 0]
    ELSE IF HexOf(s, 0) > 255
         THEN [ok |-> FALSE, val |-> 255]
         ELSE [ok |-> TRUE, val |-> HexOf(s, 0)]

ToLowerRune(c) ==
    CASE c = "A" -> "a" [] c = "B" -> "b" [] c = "C" -> "c" [] c = "D" -> "d"
      [] c = "E" -> "e" [] c = "F" -> "f" [] c = "G" -> "g" [] OTHER -> c

\* strings.ToLower
ToLower(s) == [k \in 1..Len(s) |-> ToLowerRune(s[k])]

RECURSIVE BitAnd(_, _)
\* the & of two naturals
BitAnd(a, b) ==
    IF a = 0 \/ b = 0 THEN 0
    ELSE (a % 2) * (b % 2) + 2 * BitAnd(a \div 2, b \div 2)

\* the result of a function returning (string, error)
Ok(code) == [err |-> FALSE, code |-> code]
Fail == [err |-> TRUE, code |-> <<>>]

----------------------------------------------------------------------------
\* The protocol table

Waveform(h, l) == [high |-> h, low |-> l]

protocols ==
    << [pulseLen |-> 350, syncBit |-> Waveform(1, 31), zeroBit |-> Waveform(1, 3),
        oneBit |-> Waveform(3, 1), inverted |-> FALSE],
       [pulseLen |-> 650, syncBit |-> Waveform(1, 10), zeroBit |-> Waveform(1, 2),
        oneBit |-> Waveform(2, 1), inverted |-> FALSE],
       [pulseLen |-> 100, syncBit |-> Waveform(30, 71), zeroBit |-> Waveform(4, 11),
        oneBit |-> Waveform(9, 6), inverted |-> FALSE],
       [pulseLen |-> 380, syncBit |-> Waveform(1, 6), zeroBit |-> Waveform(1, 3),
        oneBit |-> Waveform(3, 1), inverted |-> FALSE],
       [pulseLen |-> 500, syncBit |-> Waveform(6, 14), zeroBit |-> Waveform(1, 2),
        oneBit |-> Waveform(2, 1), inverted |-> FALSE],
       [pulseLen |-> 450, syncBit |-> Waveform(23, 1), zeroBit |-> Waveform(1, 2),
        oneBit |-> Waveform(2, 1), inverted |-> TRUE] >>

----------------------------------------------------------------------------
\* The codeword encoders

RECURSIVE encodeBitsA(_)
\* the loop of getCodeWordA over the runes of group + device
encodeBitsA(s) ==
    IF s = <<>> THEN <<>>
    ELSE <<IF Head(s) = "0" THEN "F" ELSE "0">> \o encodeBitsA(Tail(s))

\* getCodeWordA with the two status suffixes exchanged
getCodeWordASwapped(group, device, status) ==
    IF len(group) # 5 THEN Fail
    ELSE IF len(device) # 5 THEN Fail
    ELSE Ok(encodeBitsA(group \o device) \o (IF status THEN <<"F", "0">> ELSE <<"0", "F">>))

getCodeWordA(group, device, status) ==
    IF len(group) # 5 THEN Fail
    ELSE IF len(device) # 5 THEN Fail
    ELSE Ok(encodeBitsA(group \o device) \o (IF status THEN <<"0", "F">> ELSE <<"F", "0">>))

\* one of the two "for i := 1; i <= 4; i++" loops of getCodeWordB
oneHotB(n) == [i \in 1..4 |-> IF n = i THEN "0" ELSE "F"]

getCodeWordB(group, device, status) ==
    IF group < 1 \/ group > 4 \/ device < 1 \/ device > 4 THEN Fail
    ELSE Ok(oneHotB(group) \o oneHotB(device) \o <<"F", "F", "F">>
            \o (IF status THEN <<"F">> ELSE <<"0">>))

\* the closure conf of getCodeWordC; uint(i) - 1 is i - 1 for the i >= 1 it is given
conf(i) ==
    LET iu == i - 1
    IN  <<IF BitAnd(iu, 1) = 1 THEN "F" ELSE "0">>
        \o <<IF BitAnd(iu, 2) = 1 THEN "F" ELSE "0">>

\* the family loop of getCodeWordC: the low four bits, lowest first
familyBits(f) == [i \in 1..4 |-> IF (f \div (2 ^ (i - 1))) % 2 = 1 THEN "F" ELSE "0"]

getCodeWordC(family, group, device, status) ==
    IF len(family) # 1 THEN Fail
    ELSE IF ~ParseUint(family).ok THEN Fail
    ELSE IF ~Atoi(group).ok THEN Fail
    ELSE IF Atoi(group).val < 1 \/ Atoi(group).val > 4 THEN Fail
    ELSE IF ~Atoi(device).ok THEN Fail
    ELSE IF Atoi(device).val < 1 \/ Atoi(device).val > 4 THEN Fail
    ELSE Ok(familyBits(ParseUint(family).val)
            \o conf(Atoi(device).val) \o conf(Atoi(group).val)
            \o <<"0", "F", "F">> \o (IF status THEN <<"F">> ELSE <<"0">>))

getCodeWordD(group, device, status) ==
    IF len(group) # 1 THEN Fail
    ELSE IF ToLower(group) \notin {<<"a">>, <<"b">>, <<"c">>, <<"d">>} THEN Fail
    ELSE IF device \notin {1, 2, 3} THEN Fail
    ELSE Ok((CASE ToLower(group) = <<"a">> -> <<"1", "F", "F", "F">>
               [] ToLower(group) = <<"b">> -> <<"F", "1", "F", "F">>
               [] ToLower(group) = <<"c">> -> <<"F", "F", "1", "F">>
               [] ToLower(group) = <<"d">> -> <<"F", "F", "F", "1">>)
            \o (CASE device = 1 -> <<"1", "F", "F">>
                  [] device = 2 -> <<"F", "1", "F">>
                  [] device = 3 -> <<"F", "F", "1">>)
            \o <<"0", "0", "0">>
            \o (IF status THEN <<"1", "0">> ELSE <<"0", "1">>))

getCodeWord(family, group, device, status) ==
    IF family # <<>> THEN getCodeWordC(family, group, device, status)
    ELSE IF len(group) > 1 /\ len(device) > 1 THEN getCodeWordA(group, device, status)
    ELSE IF len(group) = 1 /\ len(device) = 1
         THEN IF ~Atoi(device).ok THEN Fail
              ELSE IF ~Atoi(group).ok
                   THEN getCodeWordB(Atoi(group).val, Atoi(device).val, status)
                   ELSE getCodeWordD(group, Atoi(device).val, status)
    ELSE Fail

----------------------------------------------------------------------------
\* Expander and compiler

RECURSIVE triStateToBinaryNoF(_)
\* triStateToBinary without the case 'F'
triStateToBinaryNoF(tristate) ==
    IF tristate = <<>> THEN <<>>
    ELSE (CASE Head(tristate) = "0" -> <<"0", "0">>
            [] Head(tristate) = "1" -> <<"1", "1">>
            [] OTHER -> <<>>)
         \o triStateToBinaryNoF(Tail(tristate))

RECURSIVE triStateToBinary(_)
triStateToBinary(tristate) ==
    IF tristate = <<>> THEN <<>>
    ELSE (CASE Head(tristate) = "0" -> <<"0", "0">>
            [] Head(tristate) = "1" -> <<"1", "1">>
            [] Head(tristate) = "F" -> <<"0", "1">>
            [] OTHER -> <<>>)
         \o triStateToBinary(Tail(tristate))

binaryToWaveForm(binary, prot) ==
    [k \in 1..Len(binary) |-> IF binary[k] = "1" THEN prot.oneBit ELSE prot.zeroBit]
    \o <<prot.syncBit>>

----------------------------------------------------------------------------
\* The pipeline on its own: getCodeWord, then triStateToBinary, then
\* binaryToWaveForm, on every input of the sets below

Runes ==
    {"0", "1", "2", "3", "4", "5", "a", "b", "c", "d", "A", "D", "e", "g", "F", "+", "U+E9"}

\* every string over {0, 1} of at most MaxLen runes
BinStrs == UNION {[1..k -> {"0", "1"}] : k \in 0..MaxLen}

\* the empty string, every one-rune string, and strings that probe Atoi and len
ShortStrs ==
    {<<>>} \cup {<<c>> : c \in Runes}
    \cup {<<"0", "1">>, <<"+", "1">>, <<"-", "1">>, <<"1", "0">>, <<"0", "5">>,
          <<"1", "1", "0", "1", "2">>, <<"U+E9", "0", "0", "0">>}

Strs == BinStrs \cup ShortStrs

Families ==
    {<<"a">>, <<"f">>, <<"F">>, <<"0">>, <<"9">>, <<"g">>, <<"+">>, <<"U+E9">>, <<"1", "a">>}

EncInputs ==
    [family : {<<>>}, group : Strs, device : Strs, status : BOOLEAN]
    \cup [family : Families, group : ShortStrs, device : ShortStrs, status : BOOLEAN]

NoInput == [family |-> <<>>, group |-> <<>>, device |-> <<>>, status |-> FALSE]

Encode ==
    /\ encStage = "input"
    /\ encOut' = getCodeWord(encIn.family, encIn.group, encIn.device, encIn.status)
    /\ encStage' = "encoded"
    /\ UNCHANGED <<encIn, encBin, encProt, encWs, objVars, procVars>>

\* sendTriState: only a codeword returned without error is handed on
Expand ==
    /\ encStage = "encoded"
    /\ ~encOut.err
    /\ encBin' = triStateToBinary(encOut.code)
    /\ encStage' = "expanded"
    /\ UNCHANGED <<encIn, encOut, encProt, encWs, objVars, procVars>>

\* send: the binary string compiled for the protocol in force
Compile(n) ==
    /\ encStage = "expanded"
    /\ encProt' = n
    /\ encWs' = binaryToWaveForm(encBin, protocols[n])
    /\ encStage' = "compiled"
    /\ UNCHANGED <<encIn, encOut, encBin, objVars, procVars>>

----------------------------------------------------------------------------
\* The RCSwitch object and the goroutines calling it

Procs == {"g1", "g2"}
NoProc == "none"

\* the pin the test program opens
rcPin == 17
Pins == {rcPin, 27}

\* a Go map[...]bool as a function on the keys present; a missing key reads false
EmptyMap == [k \in {} |-> FALSE]
MapPut(m, k, v) == [x \in (DOMAIN m) \cup {k} |-> IF x = k THEN v ELSE m[x]]
MapGet(m, k) == IF k \in DOMAIN m THEN m[k] ELSE FALSE

\* the fields of the object a caller can observe or set
Config == [pin |-> pin, protocol |-> protocol, nrRepeat |-> nrRepeat, isOn |-> isOn]

NoCall ==
    [name |-> "none", family |-> <<>>, group |-> <<>>, device |-> <<>>,
     status |-> FALSE, arg |-> 0]
SwitchCall(name, family, group, device, status) ==
    [name |-> name, family |-> family, group |-> group, device |-> device,
     status |-> status, arg |-> 0]
QueryCall(group, device) ==
    [name |-> "IsOn", family |-> <<>>, group |-> group, device |-> device,
     status |-> FALSE, arg |-> 0]
SetCall(name, arg) ==
    [name |-> name, family |-> <<>>, group |-> <<>>, device |-> <<>>,
     status |-> FALSE, arg |-> arg]

\* pre of a goroutine that is in no call
NoPre == [pin |-> rcPin, protocol |-> protocols[1], nrRepeat |-> 10, isOn |-> EmptyMap]

NoFrame ==
    [ws |-> <<>>, d |-> 0, f |-> "High", s |-> "Low", nrRepeat |-> 0, pin |-> 0,
     i |-> 0, j |-> 0]

\* the inputs the callers draw from
SwitchInputs ==
    { <<<<>>, <<"1", "1", "0", "1", "1">>, <<"1", "0", "0", "0", "0">>>>,   \* Type A
      <<<<>>, <<"1">>, <<"2">>>>,                                           \* Type B
      <<<<"b">>, <<"1">>, <<"2">>>>,                                        \* Type C
      <<<<>>, <<"a">>, <<"1">>>>,                                           \* Type D
      <<<<>>, <<"1", "1", "0">>, <<"1", "0", "0", "0", "0">>>>,             \* group too short
      <<<<"g">>, <<"1">>, <<"2">>>> }                                       \* family not hex
QueryInputs ==
    { <<<<"1", "1", "0", "1", "1">>, <<"1", "0", "0", "0", "0">>>>,
      <<<<"1", "1", "0", "1">>, <<"1", "1", "0", "0", "0", "0">>>>,
      <<<<"1">>, <<"2">>>>,
      <<<<"2">>, <<"1">>>> }
RepeatInputs == {-5, 0} \cup 1..MaxRepeat
ProtocolInputs == {0, 1, Len(protocols), Len(protocols) + 1}

\* NewRCSwitch(rcPin): nrRepeat 10, an empty map, SetPin(pin), SetProtocol(1)
NewRCSwitch ==
    /\ nrRepeat = 10
    /\ isOn = EmptyMap
    /\ pin = rcPin
    /\ protocol = protocols[1]
    /\ lock = NoProc

Init ==
    /\ NewRCSwitch
    /\ pc = [p \in Procs |-> "idle"]
    /\ call = [p \in Procs |-> NoCall]
    /\ frame = [p \in Procs |-> NoFrame]
    /\ trace = [p \in Procs |-> <<>>]
    /\ pre = [p \in Procs |-> NoPre]
    /\ last = EmptyMap
    /\ encIn = NoInput
    /\ encStage = "off"
    /\ encOut = Fail
    /\ encBin = <<>>
    /\ encProt = 1
    /\ encWs = <<>>

\* s.Lock() by goroutine p entering the call c
Lock(p, c) ==
    /\ pc[p] = "idle"
    /\ lock = NoProc
    /\ lock' = p
    /\ call' = [call EXCEPT ![p] = c]
    /\ pre' = [pre EXCEPT ![p] = Config]

\* s.Unlock() and the return of the call
Unlock(p) ==
    /\ lock' = NoProc
    /\ pc' = [pc EXCEPT ![p] = "idle"]
    /\ call' = [call EXCEPT ![p] = NoCall]
    /\ pre' = [pre EXCEPT ![p] = NoPre]

\* SetPin without s.Lock()
SetPinNoLock(p, newPin) ==
    /\ pc[p] = "idle"
    /\ pin' = newPin
    /\ UNCHANGED <<protocol, nrRepeat, isOn, lock, procVars, encVars>>

SetPin(p, newPin) ==
    /\ Lock(p, SetCall("SetPin", newPin))
    /\ pc' = [pc EXCEPT ![p] = "SetPin"]
    /\ UNCHANGED <<pin, protocol, nrRepeat, isOn, frame, trace, last, encVars>>

SetPinStore(p) ==
    /\ pc[p] = "SetPin"
    /\ pin' = call[p].arg
    /\ Unlock(p)
    /\ UNCHANGED <<protocol, nrRepeat, isOn, frame, trace, last, encVars>>

\* SetRepeat storing the count before it checks it
SetRepeatStoreFirst(p, n) ==
    /\ pc[p] = "idle"
    /\ lock = NoProc
    /\ nrRepeat' = n
    /\ pc' = [pc EXCEPT ![p] = IF n <= 0 THEN "reterr" ELSE "idle"]
    /\ UNCHANGED <<pin, protocol, isOn, lock, call, frame, trace, pre, last, encVars>>

\* the check of the argument comes before s.Lock(): a rejected call returns
\* an error without the mutex ("reterr": the error is being returned)
SetRepeat(p, n) ==
    /\ pc[p] = "idle"
    /\ IF n <= 0
       THEN /\ pc' = [pc EXCEPT ![p] = "reterr"]
            /\ UNCHANGED <<lock, call, pre>>
       ELSE /\ Lock(p, SetCall("SetRepeat", n))
            /\ pc' = [pc EXCEPT ![p] = "SetRepeat"]
    /\ UNCHANGED <<pin, protocol, nrRepeat, isOn, frame, trace, last, encVars>>

SetRepeatStore(p) ==
    /\ pc[p] = "SetRepeat"
    /\ nrRepeat' = call[p].arg
    /\ Unlock(p)
    /\ UNCHANGED <<pin, protocol, isOn, frame, trace, last, encVars>>

SetProtocol(p, n) ==
    /\ pc[p] = "idle"
    /\ IF n <= 0 \/ n > Len(protocols)
       THEN /\ pc' = [pc EXCEPT ![p] = "reterr"]
            /\ UNCHANGED <<lock, call, pre>>
       ELSE /\ Lock(p, SetCall("SetProtocol", n))
            /\ pc' = [pc EXCEPT ![p] = "SetProtocol"]
    /\ UNCHANGED <<pin, protocol, nrRepeat, isOn, frame, trace, last, encVars>>

SetProtocolStore(p) ==
    /\ pc[p] = "SetProtocol"
    /\ protocol' = protocols[call[p].arg]
    /\ Unlock(p)
    /\ UNCHANGED <<pin, nrRepeat, isOn, frame, trace, last, encVars>>

\* the return of a call rejected before s.Lock()
ReturnErr(p) ==
    /\ pc[p] = "reterr"
    /\ pc' = [pc EXCEPT ![p] = "idle"]
    /\ UNCHANGED <<objVars, call, frame, trace, pre, last, encVars>>

\* the locals of transmit() on entry: d, f and s, the arguments, the loop at its start
transmit(ws, prot, nr, out) ==
    [ws |-> ws, d |-> prot.pulseLen,
     f |-> IF prot.inverted THEN "Low" ELSE "High",
     s |-> IF prot.inverted THEN "High" ELSE "Low",
     nrRepeat |-> nr, pin |-> out, i |-> 0, j |-> 1]

\* s.send(binary)
send(binary) == transmit(binaryToWaveForm(binary, protocol), protocol, nrRepeat, pin)

\* s.sendTriState(code)
sendTriState(tristate) == send(triStateToBinary(tristate))

\* SwitchOn and SwitchOff up to the first pin write: s.Lock(), getCodeWord, and
\* either the error return path or the entry of transmit()
SwitchBegin(p, name, family, group, device, status) ==
    LET code == getCodeWord(family, group, device, status)
        fr == sendTriState(code.code)
    IN  /\ Lock(p, SwitchCall(name, family, group, device, status))
        /\ IF code.err
           THEN /\ pc' = [pc EXCEPT ![p] = "unlockerr"]
                /\ UNCHANGED frame
           ELSE /\ frame' = [frame EXCEPT ![p] = fr]
                /\ pc' = [pc EXCEPT ![p] = IF fr.i < fr.nrRepeat THEN "outF" ELSE "record"]
        /\ UNCHANGED <<pin, protocol, nrRepeat, isOn, trace, last, encVars>>

SwitchOn(p, family, group, device) == SwitchBegin(p, "SwitchOn", family, group, device, TRUE)

SwitchOff(p, family, group, device) == SwitchBegin(p, "SwitchOff", family, group, device, FALSE)

\* pin.Out(f) and the sleep after it
TransmitFirst(p) ==
    /\ pc[p] = "outF"
    /\ trace' = [trace EXCEPT ![p] =
           Append(@, [pin |-> frame[p].pin, level |-> frame[p].f,
                      hold |-> frame[p].ws[frame[p].j].high * frame[p].d])]
    /\ pc' = [pc EXCEPT ![p] = "outS"]
    /\ UNCHANGED <<objVars, call, frame, pre, last, encVars>>

\* TransmitSecond with the outer loop running while i <= nrRepeat
TransmitSecondExtraPass(p) ==
    /\ pc[p] = "outS"
    /\ trace' = [trace EXCEPT ![p] =
           Append(@, [pin |-> frame[p].pin, level |-> frame[p].s,
                      hold |-> frame[p].ws[frame[p].j].low * frame[p].d])]
    /\ IF frame[p].j < Len(frame[p].ws)
       THEN /\ frame' = [frame EXCEPT ![p].j = @ + 1]
            /\ pc' = [pc EXCEPT ![p] = "outF"]
       ELSE /\ frame' = [frame EXCEPT ![p].i = @ + 1, ![p].j = 1]
            /\ pc' = [pc EXCEPT ![p] = IF frame[p].i + 1 <= frame[p].nrRepeat
                                       THEN "outF" ELSE "record"]
    /\ UNCHANGED <<objVars, call, pre, last, encVars>>

\* pin.Out(s), the sleep after it, and the step of the two loops
TransmitSecond(p) ==
    /\ pc[p] = "outS"
    /\ trace' = [trace EXCEPT ![p] =
           Append(@, [pin |-> frame[p].pin, level |-> frame[p].s,
                      hold |-> frame[p].ws[frame[p].j].low * frame[p].d])]
    /\ IF frame[p].j < Len(frame[p].ws)
       THEN /\ frame' = [frame EXCEPT ![p].j = @ + 1]
            /\ pc' = [pc EXCEPT ![p] = "outF"]
       ELSE /\ frame' = [frame EXCEPT ![p].i = @ + 1, ![p].j = 1]
            /\ pc' = [pc EXCEPT ![p] = IF frame[p].i + 1 < frame[p].nrRepeat
                                       THEN "outF" ELSE "record"]
    /\ UNCHANGED <<objVars, call, pre, last, encVars>>

\* s.isOn[group+device] = true (SwitchOn) or false (SwitchOff)
SwitchRecord(p) ==
    /\ pc[p] = "record"
    /\ isOn' = MapPut(isOn, call[p].group \o call[p].device, call[p].status)
    /\ pc' = [pc EXCEPT ![p] = "unlock"]
    /\ UNCHANGED <<pin, protocol, nrRepeat, lock, call, frame, trace, pre, last, encVars>>

\* the deferred s.Unlock() and the return of SwitchOn or SwitchOff
SwitchReturn(p) ==
    /\ pc[p] \in {"unlock", "unlockerr"}
    /\ Unlock(p)
    /\ frame' = [frame EXCEPT ![p] = NoFrame]
    /\ trace' = [trace EXCEPT ![p] = <<>>]
    /\ last' = IF pc[p] = "unlock"
               THEN MapPut(last, <<call[p].group, call[p].device>>, call[p].status)
               ELSE last
    /\ UNCHANGED <<pin, protocol, nrRepeat, isOn, encVars>>

\* the value IsOn(group, device) returns: s.isOn[group+device]
IsOn(group, device) == MapGet(isOn, group \o device)

IsOnLock(p, group, device) ==
    /\ Lock(p, QueryCall(group, device))
    /\ pc' = [pc EXCEPT ![p] = "IsOn"]
    /\ UNCHANGED <<pin, protocol, nrRepeat, isOn, frame, trace, last, encVars>>

IsOnReturn(p) ==
    /\ pc[p] = "IsOn"
    /\ Unlock(p)
    /\ UNCHANGED <<pin, protocol, nrRepeat, isOn, frame, trace, last, encVars>>

Next ==
    \E p \in Procs :
        \/ \E n \in Pins : SetPin(p, n)
        \/ SetPinStore(p)
        \/ \E n \in RepeatInputs : SetRepeat(p, n)
        \/ SetRepeatStore(p)
        \/ \E n \in ProtocolInputs : SetProtocol(p, n)
        \/ SetProtocolStore(p)
        \/ ReturnErr(p)
        \/ \E a \in SwitchInputs : SwitchOn(p, a[1], a[2], a[3])
        \/ \E a \in SwitchInputs : SwitchOff(p, a[1], a[2], a[3])
        \/ TransmitFirst(p)
        \/ TransmitSecond(p)
        \/ SwitchRecord(p)
        \/ SwitchReturn(p)
        \/ \E q \in QueryInputs : IsOnLock(p, q[1], q[2])
        \/ IsOnReturn(p)

Spec == Init /\ [][Next]_vars

\* the pipeline alone, on every input of EncInputs; the object stays as constructed
EncInit ==
    /\ NewRCSwitch
    /\ pc = [p \in Procs |-> "idle"]
    /\ call = [p \in Procs |-> NoCall]
    /\ frame = [p \in Procs |-> NoFrame]
    /\ trace = [p \in Procs |-> <<>>]
    /\ pre = [p \in Procs |-> NoPre]
    /\ last = EmptyMap
    /\ encIn \in EncInputs
    /\ encStage = "input"
    /\ encOut = Fail
    /\ encBin = <<>>
    /\ encProt = 1
    /\ encWs = <<>>

EncNext ==
    \/ Encode
    \/ Expand
    \/ \E n \in 1..Len(protocols) : Compile(n)

SpecEnc == EncInit /\ [][EncNext]_vars

----------------------------------------------------------------------------
\* Claims about the encoders and the pipeline (specification SpecEnc)

Bin5 == [1..5 -> {"0", "1"}]

\* C3: for empty family and group, device each five runes over {0, 1},
\* getCodeWord succeeds with twelve symbols: symbol i (1..10) is F where rune i
\* of group+device is 0 and 0 otherwise, the last two are 0F for on and F0 for
\* off, ("11011", "10000", on) giving 00F000FFFF0F; a group or device of
\* length 2..4 or above 5 is rejected.
C3_TypeA ==
    (encStage = "encoded" /\ encIn.family = <<>>) =>
        LET gd == encIn.group \o encIn.device
        IN  /\ (encIn.group \in Bin5 /\ encIn.device \in Bin5) =>
                  /\ ~encOut.err
                  /\ Len(encOut.code) = 12
                  /\ \A i \in 1..10 : encOut.code[i] = (IF gd[i] = "0" THEN "F" ELSE "0")
                  /\ SubSeq(encOut.code, 11, 12)
                       = (IF encIn.status THEN <<"0", "F">> ELSE <<"F", "0">>)
            /\ (encIn.group = <<"1", "1", "0", "1", "1">>
                  /\ encIn.device = <<"1", "0", "0", "0", "0">> /\ encIn.status) =>
                  encOut.code = <<"0", "0", "F", "0", "0", "0", "F", "F", "F", "F", "0", "F">>
            /\ (\E s \in {encIn.group, encIn.device} : len(s) \in 2..4 \/ len(s) > 5) =>
                  encOut.err

C3_Witness ==
    /\ encStage = "encoded"
    /\ encIn = [family |-> <<>>, group |-> <<"1", "1", "0", "1", "1">>,
                device |-> <<"1", "0", "0", "0", "0">>, status |-> TRUE]
    /\ encOut = Ok(<<"0", "0", "F", "0", "0", "0", "F", "F", "F", "F", "0", "F">>)

\* C9: a codeword getCodeWord returns without error loses and gains no symbol
\* on the way: triStateToBinary gives two bits per symbol, binaryToWaveForm one
\* waveform per bit and then the protocol's sync waveform.
C9_NoDropNoPad ==
    /\ encStage \in {"expanded", "compiled"} => Len(encBin) = 2 * Len(encOut.code)
    /\ encStage = "compiled" =>
          /\ Len(encWs) = 2 * Len(encOut.code) + 1
          /\ encWs[Len(encWs)] = protocols[encProt].syncBit

C9_Witness ==
    /\ encStage = "compiled"
    /\ encIn.family = <<"a">>
    /\ encProt = 6
    /\ Len(encOut.code) = 12
    /\ Len(encWs) = 25

\* C2: with empty family and one-character group and device, device an
\* integer: a group that is an integer gets the Type B encoder's result, any
\* other group the Type D encoder's; groups a..d with devices 1..3 succeed.
C2_DispatchBD ==
    (/\ encStage = "encoded"
     /\ encIn.family = <<>>
     /\ len(encIn.group) = 1
     /\ len(encIn.device) = 1
     /\ Atoi(encIn.device).ok) =>
        /\ encOut = IF Atoi(encIn.group).ok
                    THEN getCodeWordB(Atoi(encIn.group).val, Atoi(encIn.device).val,
                                      encIn.status)
                    ELSE getCodeWordD(encIn.group, Atoi(encIn.device).val, encIn.status)
        /\ (encIn.group \in {<<"a">>, <<"b">>, <<"c">>, <<"d">>}
              /\ Atoi(encIn.device).val \in {1, 2, 3}) => ~encOut.err
        /\ (Atoi(encIn.device).val = 4 /\ ~Atoi(encIn.group).ok) => encOut.err

\* the symbol the Type C encoder writes for a bit
bitSymbol(b) == IF b = 1 THEN "F" ELSE "0"

\* C8: in a Type C codeword the block of device (symbols 5, 6) and of group
\* (symbols 7, 8) is bit 0 then bit 1 of the value less one, so commands that
\* differ in the value of device or of group have different codewords.
C8_ConfDistinct ==
    (encStage = "encoded" /\ encIn.family # <<>> /\ ~encOut.err) =>
        LET d == Atoi(encIn.device).val - 1
            g == Atoi(encIn.group).val - 1
        IN  /\ SubSeq(encOut.code, 5, 6) = <<bitSymbol(d % 2), bitSymbol((d \div 2) % 2)>>
            /\ SubSeq(encOut.code, 7, 8) = <<bitSymbol(g % 2), bitSymbol((g \div 2) % 2)>>
            /\ \A g2, d2 \in ShortStrs :
                  LET other == getCodeWord(encIn.family, g2, d2, encIn.status)
                  IN  (/\ ~other.err
                       /\ \/ Atoi(g2).val # Atoi(encIn.group).val
                          \/ Atoi(d2).val # Atoi(encIn.device).val)
                      => other.code # encOut.code

----------------------------------------------------------------------------
\* Claims about the RCSwitch object (specification Spec)

\* the codeword, binary string and waveform count of the Switch call of p
CodeOf(p) == getCodeWord(call[p].family, call[p].group, call[p].device, call[p].status).code
BinaryOf(p) == triStateToBinary(CodeOf(p))

\* the k-th pin write of n passes over the waveforms of the binary string bin
\* followed by the sync waveform, under the object's protocol and pin
ExpectedWrite(bin, k) ==
    LET count == Len(bin) + 1
        w == (((k - 1) \div 2) % count) + 1
        wave == IF w = count THEN protocol.syncBit
                ELSE IF bin[w] = "1" THEN protocol.oneBit ELSE protocol.zeroBit
        first == k % 2 = 1
    IN  [pin |-> pin,
         level |-> IF first = protocol.inverted THEN "Low" ELSE "High",
         hold |-> (IF first THEN wave.high ELSE wave.low) * protocol.pulseLen]

\* the whole transmission of the Switch call of p has been written
FullyTransmitted(p) ==
    /\ Len(trace[p]) = nrRepeat * (2 * Len(BinaryOf(p)) + 2)
    /\ \A k \in 1..Len(trace[p]) : trace[p][k] = ExpectedWrite(BinaryOf(p), k)

\* C6: with the repeat count n that SetRepeat stored, a successful Switch call
\* writes exactly n passes over the waveform sequence, each waveform one write
\* of the first level then one of the second (High, Low, exchanged iff the
\* protocol is inverted): n * (2 * len(binary) + 2) writes in all.
C6_RepeatPasses ==
    \A p \in Procs : pc[p] \in {"record", "unlock"} => FullyTransmitted(p)

C6_Witness ==
    \E p \in Procs :
        /\ pc[p] = "unlock"
        /\ nrRepeat = 2
        /\ protocol.inverted
        /\ Len(trace[p]) = 100
        /\ trace[p][1].level = "Low"

\* a step of goroutine p
StepOf(p) == pc'[p] # pc[p]

\* C4: a call that returns an error has written nothing to the pin and leaves
\* pin, protocol, repeat count and on/off map as they were when it began; the
\* on/off map is written only once the whole transmission has been made.
C4_ErrorLeavesNoTrace ==
    [][ /\ \A p \in Procs :
              /\ (StepOf(p) /\ (pc[p] \in {"reterr", "unlockerr"}
                                  \/ pc'[p] \in {"reterr", "unlockerr"})) =>
                    /\ Config' = Config
                    /\ trace[p] = <<>>
                    /\ trace'[p] = <<>>
              /\ pc[p] = "unlockerr" => Config = pre[p]
        /\ isOn' # isOn =>
              \E p \in Procs : pc[p] = "record" /\ pc'[p] = "unlock" /\ FullyTransmitted(p)
      ]_vars

C4_Witness ==
    \E p, q \in Procs :
        /\ pc[p] = "unlockerr"
        /\ call[p].name = "SwitchOff"
        /\ pc[q] = "reterr"
        /\ isOn # EmptyMap
        /\ nrRepeat = 1

\* goroutine p has made the first pin write of its call and not yet the last
InFrame(p) == pc[p] \in {"outF", "outS"} /\ trace[p] # <<>>

\* C5: between the first and the last pin write of a Switch call no other call
\* writes the pin and protocol, repeat count and pin do not change, so the
\* frame is sent with one protocol, one repeat count and one pin: every write
\* of the frame is the one that protocol and pin give for its place.
C5_TransmissionAtomic ==
    [][ \A p \in Procs :
            /\ InFrame(p) =>
                  /\ \A q \in Procs \ {p} : trace'[q] = trace[q] /\ ~InFrame(q)
                  /\ UNCHANGED <<pin, protocol, nrRepeat>>
            /\ Len(trace'[p]) > Len(trace[p]) =>
                  trace'[p][Len(trace'[p])] = ExpectedWrite(BinaryOf(p), Len(trace'[p]))
      ]_vars

C5_Witness ==
    \E p, q \in Procs :
        /\ InFrame(p)
        /\ pc[q] = "reterr"
        /\ pin # rcPin
        /\ protocol.inverted
        /\ Len(trace[p]) > 50

\* C1: on a fresh controller SwitchOn("", "1", "2") returns with
\* IsOn("1", "2") true, and a SwitchOff("", "1", "2") after it returns with
\* IsOn("1", "2") false.
C1_TypeBOnOff ==
    \A p \in Procs :
        (/\ pc[p] \in {"unlock", "unlockerr"}
         /\ call[p].family = <<>> /\ call[p].group = <<"1">> /\ call[p].device = <<"2">>) =>
            /\ (call[p].name = "SwitchOn" /\ pre[p] = NoPre) => IsOn(<<"1">>, <<"2">>)
            /\ (call[p].name = "SwitchOff" /\ MapGet(pre[p].isOn, <<"1", "2">>)) =>
                  ~IsOn(<<"1">>, <<"2">>)

\* C7: IsOn(group, device) returns false if no Switch call with that group
\* and device has returned nil, and else the status of the last one that did.
C7_IsOnIsLastCommanded ==
    \A p \in Procs :
        pc[p] = "IsOn" =>
            IsOn(call[p].group, call[p].device)
                = MapGet(last, <<call[p].group, call[p].device>>)

\* C10: a successful Switch call on (g, d) leaves IsOn(g2, d2) as it was
\* before the call for every other pair (g2, d2).
C10_OtherPairsKept ==
    \A p \in Procs :
        pc[p] = "unlock" =>
            \A q \in QueryInputs :
                (q[1] # call[p].group \/ q[2] # call[p].device) =>
                    IsOn(q[1], q[2]) = MapGet(pre[p].isOn, q[1] \o q[2])

=============================================================================
